---- MODULE Spec2Model ----
(***************************************************************************)
(* A model of the Bella Terra retrieval-augmented query system:            *)
(*   - the chunker (_split_text),                                          *)
(*   - the one-time population of the persistent collection                *)
(*     (setup_vectorstore),                                                *)
(*   - retrieval (retrieve_context) and the two answer paths               *)
(*     (CAGSystem.process_query, CAGSystemFast.process_query).             *)
(* The vector store, the embedding service and the generative model are    *)
(* external services: their answers are nondeterministic choices.          *)
(***************************************************************************)
EXTENDS Integers, Sequences, FiniteSets, TLC

VARIABLES
    \* ---- _split_text, one call ----
    text,          \* the argument text (a sequence of characters)
    chunk_size,    \* the argument chunk_size
    overlap,       \* the argument overlap
    start,         \* the local variable start
    chunks,        \* the local list chunks
    spc,           \* position in _split_text: "idle", "loop", "returned"
    \* ---- setup_vectorstore, the persistent collection ----
    folder,        \* the data folder: a set of files [name, len]
    store,         \* the collection "bella_terra_menus": a set of entries
    stpc,          \* per process: position in setup_vectorstore
    observed,      \* per process: the value count() returned to it
    batch,         \* per process: the lists documents / metadatas / ids
    adders,        \* history: the processes that executed collection.add
    submitted,     \* history: every id handed to collection.add, in order
    \* ---- process_query, one invocation per thread ----
    system,        \* the class constructed: "CAGSystem" or "CAGSystemFast"
    agents,        \* the agent attributes set on self by create_agents
    inv,           \* per thread: the state of its invocation
    \* ---- the API service ----
    use_fast_mode, \* the module constant USE_FAST_MODE
    started,       \* startup_event has run
    jobs,          \* the dict jobs: per job id its JobStatus, None if absent
    background,    \* per job id: the state of its background task
    returned,      \* history: the job ids handed back to clients
    reply          \* the last HTTP response sent

chunkerVars == <<text, chunk_size, overlap, start, chunks, spc>>
setupVars   == <<folder, store, stpc, observed, batch, adders, submitted>>
queryVars   == <<system, agents, inv>>
apiVars     == <<use_fast_mode, started, jobs, background, returned, reply>>
vars        == <<text, chunk_size, overlap, start, chunks, spc,
                 folder, store, stpc, observed, batch, adders, submitted,
                 system, agents, inv,
                 use_fast_mode, started, jobs, background, returned, reply>>

\* ------------------------------------------------------------------------
\* Bounds
\* ------------------------------------------------------------------------
MaxTextLen == 4
MaxChunkSize == 3
MaxOverlap == 4
\* the loop of _split_text is cut after this many emissions (it never cuts a
\* call with overlap < chunk_size, which emits at most Len(text) chunks)
MaxChunks == MaxTextLen + 2

Min(a, b) == IF a < b THEN a ELSE b
Max(a, b) == IF a > b THEN a ELSE b

\* ------------------------------------------------------------------------
\* Python helpers
\* ------------------------------------------------------------------------
\* s[a:b] for a Python sequence s and integers a, b (negative indices count
\* from the end, out-of-range indices are clamped).
PySlice(s, a, b) ==
    LET n  == Len(s)
        lo == IF a < 0 THEN Max(a + n, 0) ELSE Min(a, n)
        hi == IF b < 0 THEN Max(b + n, 0) ELSE Min(b, n)
    IN  IF lo < hi THEN SubSeq(s, lo + 1, hi) ELSE <<>>

Alphabet == {"a", "b"}
Texts == UNION {[1..n -> Alphabet] : n \in 0..MaxTextLen}

\* ------------------------------------------------------------------------
\* _split_text, statement by statement
\* ------------------------------------------------------------------------
ChunkerIdle ==
    /\ text = <<>> /\ chunk_size = 1000 /\ overlap = 200
    /\ start = 0 /\ chunks = <<>> /\ spc = "idle"

\* chunks = []; start = 0; text_length = len(text)
SplitCall ==
    /\ text \in Texts
    /\ chunk_size \in 1..MaxChunkSize
    /\ overlap \in 0..MaxOverlap
    /\ start = 0
    /\ chunks = <<>>
    /\ spc = "loop"

\* the new value of start after one iteration (and a variant that forgets
\* the overlap)
NextStart_NoOverlap(s, size, ov) == s + size
NextStart(s, size, ov) == (s + size) - ov

\* one iteration of: while start < text_length
SplitLoop ==
    /\ spc = "loop"
    /\ start < Len(text)
    /\ Len(chunks) < MaxChunks
    /\ LET end == start + chunk_size
           chunk == PySlice(text, start, end)
       IN  /\ chunks' = Append(chunks, chunk)
           /\ start' = NextStart(start, chunk_size, overlap)
    /\ UNCHANGED <<text, chunk_size, overlap, spc, setupVars, queryVars, apiVars>>

\* the loop condition is false: return chunks
SplitReturn ==
    /\ spc = "loop"
    /\ ~(start < Len(text))
    /\ spc' = "returned"
    /\ UNCHANGED <<text, chunk_size, overlap, start, chunks, setupVars, queryVars, apiVars>>

\* ------------------------------------------------------------------------
\* _split_text as a function of the text length: the spans [lo, hi) of the
\* chunks text[lo:hi] it returns (defined when overlap < chunk_size)
\* ------------------------------------------------------------------------
RECURSIVE SplitFrom(_, _, _, _)
SplitFrom(s, n, size, ov) ==
    IF s < n
    THEN <<[lo |-> s, hi |-> Min(s + size, n)]>>
             \o SplitFrom(NextStart(s, size, ov), n, size, ov)
    ELSE <<>>

split_text(n, size, ov) == SplitFrom(0, n, size, ov)

\* ------------------------------------------------------------------------
\* The data folder
\* ------------------------------------------------------------------------
NumProcs == 2
Procs == 1..NumProcs

LoaderChunkSize == 1000
LoaderOverlap == 200

NameA  == <<"a", ".", "m", "d">>
NameB  == <<"b", ".", "m", "d">>
NameA1 == <<"a", ".", "m", "d", "_", "1", ".", "m", "d">>
NameT  == <<"a", ".", "t", "x", "t">>

\* a file is its name and the length of its plain-text rendering
File(name, len) == [name |-> name, len |-> len]

\* the states of the data folder (file names are distinct within a folder)
Folders ==
    { {},
      {File(NameA, 8900)},
      {File(NameA, 900), File(NameB, 1700), File(NameT, 500)},
      {File(NameA1, 2000), File(NameA, 1700), File(NameB, 0)} }

\* os.listdir: the files in an arbitrary order
Listings(dir) ==
    {l \in [1..Cardinality(dir) -> dir] :
        \A x, y \in 1..Cardinality(dir) : l[x] = l[y] => x = y}

\* filename.endswith('.md')
EndsWithMd(name) ==
    /\ Len(name) >= 3
    /\ SubSeq(name, Len(name) - 2, Len(name)) = <<".", "m", "d">>

Digit(d) ==
    CASE d = 0 -> "0" [] d = 1 -> "1" [] d = 2 -> "2" [] d = 3 -> "3"
      [] d = 4 -> "4" [] d = 5 -> "5" [] d = 6 -> "6" [] d = 7 -> "7"
      [] d = 8 -> "8" [] d = 9 -> "9"

\* str(n), the decimal digits of a natural number
RECURSIVE Str(_)
Str(n) == IF n < 10 THEN <<Digit(n)>> ELSE Str(n \div 10) \o <<Digit(n % 10)>>

\* f"{filename}_{j}" (i, the index of the file in the listing, is in scope
\* too: the variant formats i in place of j)
ChunkId_FileIndex(i, filename, j) == filename \o <<"_">> \o Str(i)
ChunkId(i, filename, j) == filename \o <<"_">> \o Str(j)

EmptyBatch == [documents |-> <<>>, metadatas |-> <<>>, ids |-> <<>>]

\* the inner loop: for j, chunk in enumerate(chunks)
FileBatch(i, f) ==
    LET spans == split_text(f.len, LoaderChunkSize, LoaderOverlap)
        n == Len(spans)
    IN  [documents |-> [k \in 1..n |->
                          [file |-> f.name, lo |-> spans[k].lo, hi |-> spans[k].hi]],
         metadatas |-> [k \in 1..n |-> [source |-> f.name, chunk_index |-> k - 1]],
         ids       |-> [k \in 1..n |-> ChunkId(i, f.name, k - 1)]]

\* the outer loop: for i, filename in enumerate(os.listdir(self.data_folder))
RECURSIVE LoadFrom(_, _)
LoadFrom(listing, k) ==
    IF k > Len(listing) THEN EmptyBatch
    ELSE LET rest == LoadFrom(listing, k + 1)
             this == IF EndsWithMd(listing[k].name)
                     THEN FileBatch(k - 1, listing[k])
                     ELSE EmptyBatch
         IN  [documents |-> this.documents \o rest.documents,
              metadatas |-> this.metadatas \o rest.metadatas,
              ids       |-> this.ids \o rest.ids]

LoadDocuments(listing) == LoadFrom(listing, 1)

\* ------------------------------------------------------------------------
\* The collection (an external, persistent store)
\* ------------------------------------------------------------------------
StoredIds(st) == {e.id : e \in st}

HasDuplicates(seq) == \E x, y \in DOMAIN seq : x # y /\ seq[x] = seq[y]

\* collection.add: records whose id is already stored are left as they are
CollectionAdd(st, b) ==
    st \cup {[id |-> b.ids[k], document |-> b.documents[k], metadata |-> b.metadatas[k]] :
                k \in {x \in DOMAIN b.ids : b.ids[x] \notin StoredIds(st)}}

\* the number of times id x occurs in the bag g
Copies(g, x) == IF x \in DOMAIN g THEN g[x] ELSE 0

Occurrences(seq, x) == Cardinality({k \in DOMAIN seq : seq[k] = x})

BagAdd(g, seq) ==
    [x \in DOMAIN g \cup {seq[k] : k \in DOMAIN seq} |->
        Copies(g, x) + Occurrences(seq, x)]

\* ------------------------------------------------------------------------
\* setup_vectorstore, one process per startup
\* ------------------------------------------------------------------------
SetupIdle ==
    /\ store = {}
    /\ stpc = [p \in Procs |-> "idle"]
    /\ observed = [p \in Procs |-> 0]
    /\ batch = [p \in Procs |-> EmptyBatch]
    /\ adders = {}
    /\ submitted = <<>>

\* __init__: the client is opened and the collection is got or created
StartProcess(p) ==
    /\ stpc[p] = "idle"
    /\ stpc' = [stpc EXCEPT ![p] = "check"]
    /\ UNCHANGED <<folder, store, observed, batch, adders, submitted,
                 chunkerVars, queryVars, apiVars>>

\* if self.collection.count() > 0: return (and a variant without the guard)
AlreadyPopulated_NoGuard(count) == FALSE
AlreadyPopulated(count) == count > 0

CheckPopulated(p) ==
    /\ stpc[p] = "check"
    /\ observed' = [observed EXCEPT ![p] = Cardinality(store)]
    /\ stpc' = [stpc EXCEPT ![p] =
                   IF AlreadyPopulated(Cardinality(store)) THEN "done" ELSE "load"]
    /\ UNCHANGED <<folder, store, batch, adders, submitted,
                 chunkerVars, queryVars, apiVars>>

\* the loop over the folder that fills documents, metadatas and ids
LoadFolder(p) ==
    /\ stpc[p] = "load"
    /\ \E listing \in Listings(folder) :
           batch' = [batch EXCEPT ![p] = LoadDocuments(listing)]
    /\ stpc' = [stpc EXCEPT ![p] = "add"]
    /\ UNCHANGED <<folder, store, observed, adders, submitted,
                 chunkerVars, queryVars, apiVars>>

\* if documents: self.collection.add(...)
AddToCollection(p) ==
    /\ stpc[p] = "add"
    /\ IF batch[p].documents # <<>>
       THEN /\ adders' = adders \cup {p}
            /\ submitted' = BagAdd(submitted, batch[p].ids)
            /\ IF HasDuplicates(batch[p].ids)
               THEN /\ store' = store          \* DuplicateIDError
                    /\ stpc' = [stpc EXCEPT ![p] = "raised"]
               ELSE /\ store' = CollectionAdd(store, batch[p])
                    /\ stpc' = [stpc EXCEPT ![p] = "done"]
       ELSE /\ stpc' = [stpc EXCEPT ![p] = "done"]
            /\ UNCHANGED <<store, adders, submitted,
                 chunkerVars, queryVars, apiVars>>
    /\ UNCHANGED <<folder, observed, batch,
                 chunkerVars, queryVars, apiVars>>

\* the process ends; a later startup runs the constructor again
ExitProcess(p) ==
    /\ stpc[p] = "done"
    /\ stpc' = [stpc EXCEPT ![p] = "idle"]
    /\ batch' = [batch EXCEPT ![p] = EmptyBatch]
    /\ observed' = [observed EXCEPT ![p] = 0]
    /\ UNCHANGED <<folder, store, adders, submitted,
                 chunkerVars, queryVars, apiVars>>

\* the menus in the data folder are edited between (or during) startups
ChangeFolder ==
    /\ \E dir \in Folders \ {folder} : folder' = dir
    /\ UNCHANGED <<store, stpc, observed, batch, adders, submitted,
                 chunkerVars, queryVars, apiVars>>

\* a startup begins only when no other process is inside setup_vectorstore
StartSequential(p) ==
    /\ \A q \in Procs \ {p} : stpc[q] \in {"idle", "done"}
    /\ StartProcess(p)


\* ------------------------------------------------------------------------
\* Queries: the values a caller and the external services supply
\* ------------------------------------------------------------------------
NumThreads == 1
Threads == 1..NumThreads

\* the threads of the executor that runs process_query for the API's
\* background tasks (loop.run_in_executor(None, ...)): two of them
PoolThreads == {1, 2}

AllThreads == Threads \cup PoolThreads

MaxK == 2
DefaultK == 5
Ks == (1..MaxK) \cup {DefaultK}

\* the empty query and a question about the menu
Queries == {"", "pizza"}

None == [none |-> TRUE]

\* a collection as setup_vectorstore leaves it
PopulatedStore == CollectionAdd({}, LoadDocuments(<<File(NameA, 1700)>>))

\* a collection, found on disk, with records written without metadata or
\* with metadata that has no 'source'
LegacyStore ==
    { [id |-> <<"x">>, document |-> [file |-> <<"x">>, lo |-> 0, hi |-> 10],
       metadata |-> None],
      [id |-> <<"y">>, document |-> [file |-> <<"y">>, lo |-> 0, hi |-> 10],
       metadata |-> [chunk_index |-> 0]],
      [id |-> <<"z">>, document |-> [file |-> <<"z">>, lo |-> 0, hi |-> 10],
       metadata |-> [source |-> NameB, chunk_index |-> 0]] }

QueryStores == {{}, PopulatedStore, LegacyStore}

\* collection.query(query_texts=[query], n_results=k): the min(k, count)
\* nearest records in some ranking, as one list per query text
Rankings(st, k) ==
    LET n == Min(k, Cardinality(st))
    IN  {r \in [1..n -> st] : \A x, y \in 1..n : r[x] = r[y] => x = y}

QueryResult(ranking) ==
    [documents |-> << [x \in DOMAIN ranking |-> ranking[x].document] >>,
     metadatas |-> << [x \in DOMAIN ranking |-> ranking[x].metadata] >>]

\* Python truth value of a list
Truthy(list) == list # <<>>

\* results['metadatas'][0][i]['source'] if results['metadatas'] else 'Unknown'
\* : the value, or the exception the subscript raises
SourceOf(results, i) ==
    IF Truthy(results.metadatas)
    THEN LET meta == results.metadatas[1][i]
         IN  IF meta = None THEN [raised |-> TRUE, value |-> "TypeError"]
             ELSE IF "source" \notin DOMAIN meta
                  THEN [raised |-> TRUE, value |-> "KeyError"]
                  ELSE [raised |-> FALSE, value |-> meta.source]
    ELSE [raised |-> FALSE, value |-> "Unknown"]

\* the body of retrieve_context after the store has answered
MapResults(results) ==
    IF Truthy(results.documents) /\ Truthy(results.documents[1])
    THEN LET docs == results.documents[1]
             bad == {i \in DOMAIN docs : SourceOf(results, i).raised}
         IN  IF bad # {}
             THEN [raised |-> TRUE,
                   error |-> SourceOf(results, CHOOSE i \in bad : \A j \in bad : i <= j).value,
                   contexts |-> <<>>]
             ELSE [raised |-> FALSE, error |-> "",
                   contexts |-> [i \in DOMAIN docs |->
                                   [content |-> docs[i],
                                    source |-> SourceOf(results, i).value]]]
    ELSE [raised |-> FALSE, error |-> "", contexts |-> <<>>]

\* ------------------------------------------------------------------------
\* The three tasks of augment_context and the crew that runs them
\* ------------------------------------------------------------------------
Analysis == 1
Augmentation == 2
Generation == 3
Stages == {Analysis, Augmentation, Generation}

\* "From {source}:\n{content}" for each context, joined
FormatContext(initial_context) ==
    [i \in DOMAIN initial_context |->
        <<"From", initial_context[i].source, initial_context[i].content>>]

\* Task(description=...): what the f-string of each task interpolates
Description(task, query, initial_context) ==
    CASE task = Analysis ->
            [task |-> "analysis", query |-> query,
             context_str |-> FormatContext(initial_context)]
      [] task = Augmentation ->
            [task |-> "augmentation", query |-> "", context_str |-> <<>>]
      [] task = Generation ->
            [task |-> "generation", query |-> query, context_str |-> <<>>]

\* Task(context=[...]): the tasks whose outputs a task receives (and a
\* variant in which the generation task is not given the augmentation)
TaskContext_Dropped(task) ==
    CASE task = Analysis -> <<>>
      [] task = Augmentation -> <<Analysis>>
      [] task = Generation -> <<Analysis>>
TaskContext(task) ==
    CASE task = Analysis -> <<>>
      [] task = Augmentation -> <<Analysis>>
      [] task = Generation -> <<Analysis, Augmentation>>

\* Task(agent=...)
TaskAgent(task) ==
    CASE task = Analysis -> "context_analyst"
      [] task = Augmentation -> "context_augmenter"
      [] task = Generation -> "response_generator"

\* create_agents: the attributes in the order it assigns them
AgentAttrs == <<"context_analyst", "context_augmenter", "response_generator">>

\* hasattr(self, name)
HasAttr(name) == name \in agents

\* Crew(tasks=[...], process=Process.sequential): the order of execution
CrewTasks == <<Analysis, Augmentation, Generation>>

\* the text a generative model returns for an input: an opaque value that
\* names the agent and the input it was produced from
ModelOutput(agent, input) == [agent |-> agent, from |-> input]

PendingStage == [status |-> "pending", input |-> None, output |-> None]

IdleInvocation ==
    [pc |-> "idle", call |-> "", query |-> "", k |-> DefaultK,
     results |-> None, initial_context |-> <<>>,
     stage |-> [n \in Stages |-> PendingStage],
     runs |-> [n \in Stages |-> 0],
     pos |-> 1,
     created |-> 0,
     retrievals |-> 0, model_calls |-> 0,
     record |-> None, error |-> None]

QueryIdle ==
    /\ system = "CAGSystem"
    /\ agents = {}
    /\ inv = [t \in AllThreads |-> IdleInvocation]


\* ------------------------------------------------------------------------
\* process_query and retrieve_context, one invocation per thread
\* ------------------------------------------------------------------------
\* a caller (the API, the CLI, the websocket endpoint, a script) calls
\* process_query(query)
CallProcessQuery(t) ==
    /\ inv[t].pc = "idle"
    /\ \E q \in Queries :
           inv' = [inv EXCEPT ![t] =
                      [IdleInvocation EXCEPT !.pc = "retrieve",
                                             !.call = "process_query",
                                             !.query = q]]
    /\ UNCHANGED <<system, agents, chunkerVars, setupVars, apiVars>>

\* a caller calls retrieve_context(query, k) itself
CallRetrieveContext(t) ==
    /\ inv[t].pc = "idle"
    /\ \E q \in Queries, k \in Ks :
           inv' = [inv EXCEPT ![t] =
                      [IdleInvocation EXCEPT !.pc = "retrieve",
                                             !.call = "retrieve_context",
                                             !.query = q,
                                             !.k = k]]
    /\ UNCHANGED <<system, agents, chunkerVars, setupVars, apiVars>>

\* where process_query goes on after retrieve_context has returned
AfterRetrieval(r) ==
    IF r.call = "retrieve_context" THEN "returned"
    ELSE IF system = "CAGSystem" THEN "agents" ELSE "fast"

\* self.collection.query(...) answers; the loop over the documents runs
RetrieveContext(t) ==
    /\ inv[t].pc = "retrieve"
    /\ \E ranking \in Rankings(store, inv[t].k) :
        LET results == QueryResult(ranking)
            mapped == MapResults(results)
            r == [inv[t] EXCEPT !.retrievals = @ + 1, !.results = results]
        IN  inv' = [inv EXCEPT ![t] =
                IF mapped.raised
                THEN [r EXCEPT !.pc = "raised",
                               !.error = [kind |-> mapped.error, stage |-> 0]]
                ELSE [r EXCEPT !.pc = AfterRetrieval(r),
                               !.initial_context = mapped.contexts,
                               !.record = IF r.call = "retrieve_context"
                                          THEN [contexts |-> mapped.contexts]
                                          ELSE None]]
    /\ UNCHANGED <<system, agents, chunkerVars, setupVars, apiVars>>

\* self.collection.query(...) raises: the store or the embedding service is
\* unreachable or rejects the request
RetrieveRaises(t) ==
    /\ inv[t].pc = "retrieve"
    /\ inv' = [inv EXCEPT ![t] =
                  [@ EXCEPT !.pc = "raised",
                            !.retrievals = @ + 1,
                            !.error = [kind |-> "IndexUnavailable", stage |-> 0]]]
    /\ UNCHANGED <<system, agents, chunkerVars, setupVars, apiVars>>

\* if not hasattr(self, 'context_analyst'): the test alone
EnsureAgents(t) ==
    /\ inv[t].pc = "agents"
    /\ inv' = [inv EXCEPT ![t] =
                  [@ EXCEPT !.pc = IF HasAttr("context_analyst") THEN "build"
                                   ELSE "create"]]
    /\ UNCHANGED <<system, agents, chunkerVars, setupVars, apiVars>>

\* create_agents: the next of its three assignments to self
CreateAgent(t) ==
    /\ inv[t].pc = "create"
    /\ LET r == inv[t]
           attr == AgentAttrs[r.created + 1]
       IN  /\ agents' = agents \cup {attr}
           /\ inv' = [inv EXCEPT ![t] =
                  [r EXCEPT !.created = @ + 1,
                            !.pc = IF r.created + 1 = Len(AgentAttrs) THEN "build"
                                   ELSE "create"]]
    /\ UNCHANGED <<system, chunkerVars, setupVars, apiVars>>

\* augment_context builds the three tasks and the crew: it reads
\* self.context_analyst, self.context_augmenter and self.response_generator
BuildTasks(t) ==
    /\ inv[t].pc = "build"
    /\ inv' = [inv EXCEPT ![t] =
                  IF \A task \in Stages : HasAttr(TaskAgent(task))
                  THEN [@ EXCEPT !.pc = "crew"]
                  ELSE [@ EXCEPT !.pc = "raised",
                                 !.error = [kind |-> "AttributeError", stage |-> 0]]]
    /\ UNCHANGED <<system, agents, chunkerVars, setupVars, apiVars>>

\* the outputs handed to a task: those of its context tasks, as they are when
\* the task starts
ContextOutputs(r, task) ==
    [c \in DOMAIN TaskContext(task) |-> r.stage[TaskContext(task)[c]].output]

\* crew.kickoff(): the next task of the crew starts (one model invocation)
StartTask(t) ==
    /\ inv[t].pc = "crew"
    /\ inv[t].pos <= Len(CrewTasks)
    /\ LET r == inv[t]
           task == CrewTasks[r.pos]
           input == [description |-> Description(task, r.query, r.initial_context),
                     context |-> ContextOutputs(r, task)]
       IN  inv' = [inv EXCEPT ![t] =
               [r EXCEPT !.pc = "task",
                         !.stage[task] = [status |-> "running", input |-> input,
                                          output |-> None],
                         !.runs[task] = @ + 1,
                         !.model_calls = @ + 1]]
    /\ UNCHANGED <<system, agents, chunkerVars, setupVars, apiVars>>

\* the running task's model invocation returns its output
FinishTask(t) ==
    /\ inv[t].pc = "task"
    /\ LET r == inv[t]
           task == CrewTasks[r.pos]
       IN  inv' = [inv EXCEPT ![t] =
               [r EXCEPT !.pc = IF r.pos = Len(CrewTasks) THEN "return" ELSE "crew",
                         !.pos = @ + 1,
                         !.stage[task].status = "finished",
                         !.stage[task].output =
                             ModelOutput(TaskAgent(task), r.stage[task].input)]]
    /\ UNCHANGED <<system, agents, chunkerVars, setupVars, apiVars>>

\* an exception raised inside crew.kickoff() meets no handler in
\* augment_context or process_query: it reaches the caller (the variant
\* catches it and returns the retrieved context alone)
PropagateFailure_Swallow(r, task) ==
    [r EXCEPT !.pc = "returned",
              !.record = [query |-> r.query,
                          initial_context |-> r.initial_context,
                          augmented_response |-> None]]
PropagateFailure(r, task) ==
    [r EXCEPT !.pc = "raised",
              !.error = [kind |-> "GenerationError", stage |-> task]]

\* the running task's model invocation fails
FailTask(t) ==
    /\ inv[t].pc = "task"
    /\ LET r == inv[t]
           task == CrewTasks[r.pos]
       IN  inv' = [inv EXCEPT ![t] =
               PropagateFailure([r EXCEPT !.stage[task].status = "failed"], task)]
    /\ UNCHANGED <<system, agents, chunkerVars, setupVars, apiVars>>

\* return {"query", "initial_context", "augmented_response": str(result)}
\* where result is the output of the crew's last task
ReturnRecord(t) ==
    /\ inv[t].pc = "return"
    /\ LET r == inv[t]
       IN  inv' = [inv EXCEPT ![t] =
               [r EXCEPT !.pc = "returned",
                         !.record = [query |-> r.query,
                                     initial_context |-> r.initial_context,
                                     augmented_response |->
                                         r.stage[CrewTasks[Len(CrewTasks)]].output]]]
    /\ UNCHANGED <<system, agents, chunkerVars, setupVars, apiVars>>

\* CAGSystemFast.process_query: the prompt of the single completion
FastPrompt(r) ==
    [description |-> [task |-> "fast", query |-> r.query,
                      context_str |-> FormatContext(r.initial_context)],
     context |-> <<>>]

\* client.chat.completions.create(...) returns; the record is returned (the
\* variant returns the formatted context in place of the retrieved entries)
FastGenerate_FormattedContext(t) ==
    /\ inv[t].pc = "fast"
    /\ LET r == inv[t]
       IN  inv' = [inv EXCEPT ![t] =
               [r EXCEPT !.pc = "returned",
                         !.model_calls = @ + 1,
                         !.record = [query |-> r.query,
                                     initial_context |-> FormatContext(r.initial_context),
                                     augmented_response |->
                                         ModelOutput("gpt-4o-mini", FastPrompt(r))]]]
    /\ UNCHANGED <<system, agents, chunkerVars, setupVars, apiVars>>
FastGenerate(t) ==
    /\ inv[t].pc = "fast"
    /\ LET r == inv[t]
       IN  inv' = [inv EXCEPT ![t] =
               [r EXCEPT !.pc = "returned",
                         !.model_calls = @ + 1,
                         !.record = [query |-> r.query,
                                     initial_context |-> r.initial_context,
                                     augmented_response |->
                                         ModelOutput("gpt-4o-mini", FastPrompt(r))]]]
    /\ UNCHANGED <<system, agents, chunkerVars, setupVars, apiVars>>

\* client.chat.completions.create(...) raises
FastFails(t) ==
    /\ inv[t].pc = "fast"
    /\ inv' = [inv EXCEPT ![t] =
                  [@ EXCEPT !.pc = "raised",
                            !.model_calls = @ + 1,
                            !.error = [kind |-> "GenerationError", stage |-> 0]]]
    /\ UNCHANGED <<system, agents, chunkerVars, setupVars, apiVars>>

\* the caller has its answer or its exception; the thread is free again
Finish(t) ==
    /\ inv[t].pc \in {"returned", "raised"}
    /\ inv' = [inv EXCEPT ![t] = IdleInvocation]
    /\ UNCHANGED <<system, agents, chunkerVars, setupVars, apiVars>>

\* ------------------------------------------------------------------------
\* The API service: startup and the asynchronous job routes
\* ------------------------------------------------------------------------
MaxJobs == 2
JobIds == 1..MaxJobs

\* QueryRequest.query has min_length=1
ApiQueries == {q \in Queries : q # ""}

\* the data folder of the service
ApiFolder == {File(NameA, 900)}

\* JobStatus(job_id=..., status=..., result=..., error=...)
JobStatus(status, result, error) ==
    [status |-> status, result |-> result, error |-> error]

IdleTask == [pc |-> "none", query |-> "", thread |-> 0]

\* the module is imported and no request has been served
ApiIdle ==
    /\ use_fast_mode = TRUE
    /\ started = FALSE
    /\ jobs = [j \in JobIds |-> None]
    /\ background = [j \in JobIds |-> IdleTask]
    /\ returned = {}
    /\ reply = None

\* startup_event: the class it constructs
StartupClass(fast) == "CAGSystem"

\* startup_event: cag_system = CAGSystem(), whose constructor runs
\* setup_vectorstore; any exception leaves cag_system = None
StartupEvent ==
    /\ ~started
    /\ started' = TRUE
    /\ \E listing \in Listings(folder) : \E ok \in BOOLEAN :
           LET populated == AlreadyPopulated(Cardinality(store))
               b == LoadDocuments(listing)
               adds == ~populated /\ b.documents # <<>>
               raises == adds /\ HasDuplicates(b.ids)
           IN  /\ store' = IF adds /\ ~raises THEN CollectionAdd(store, b) ELSE store
               /\ system' = IF ok /\ ~raises THEN StartupClass(use_fast_mode)
                            ELSE "None"
    /\ agents' = {}
    /\ UNCHANGED <<folder, stpc, observed, batch, adders, submitted, inv,
                   use_fast_mode, jobs, background, returned, reply, chunkerVars>>

\* POST /query/async
PostQueryAsync ==
    /\ started
    /\ IF system = "None"
       THEN /\ reply' = [route |-> "post", code |-> 503]
            /\ UNCHANGED <<jobs, background, returned>>
       ELSE \E j \in JobIds : \E q \in ApiQueries :
               /\ jobs[j] = None                     \* uuid4: an unused id
               /\ \A i \in JobIds : i < j => jobs[i] # None
               /\ jobs' = [jobs EXCEPT ![j] = JobStatus("processing", None, None)]
               /\ background' = [background EXCEPT ![j] =
                                    [pc |-> "scheduled", query |-> q, thread |-> 0]]
               /\ returned' = returned \cup {j}
               /\ reply' = [route |-> "post", code |-> 200, job_id |-> j,
                            status |-> "processing"]
    /\ UNCHANGED <<use_fast_mode, started, chunkerVars, setupVars, queryVars>>

\* process_query_background up to run_in_executor: a free thread of the
\* executor starts cag_system.process_query(request.query)
TaskStart(j) ==
    /\ background[j].pc = "scheduled"
    /\ \E t \in PoolThreads :
           /\ inv[t].pc = "idle"
           /\ \A u \in PoolThreads : u < t => inv[u].pc # "idle"
           /\ inv' = [inv EXCEPT ![t] =
                         [IdleInvocation EXCEPT !.pc = "retrieve",
                                                !.call = "process_query",
                                                !.query = background[j].query]]
           /\ background' = [background EXCEPT ![j] =
                                [@ EXCEPT !.pc = "running", !.thread = t]]
    /\ UNCHANGED <<system, agents, use_fast_mode, started, jobs, returned, reply,
                   chunkerVars, setupVars>>

\* process_query_background after the await: the JobStatus it stores, with
\* every exception caught
BackgroundOutcome_Uncaught(j, r) ==
    IF r.pc = "returned"
    THEN JobStatus("completed",
                   [query |-> background[j].query,
                    response |-> r.record.augmented_response], None)
    ELSE jobs[j]
BackgroundOutcome(j, r) ==
    IF r.pc = "returned"
    THEN JobStatus("completed",
                   [query |-> background[j].query,
                    response |-> r.record.augmented_response], None)
    ELSE JobStatus("failed", None, r.error)

\* process_query_background from the await to its end
TaskComplete(j) ==
    /\ background[j].pc = "running"
    /\ LET t == background[j].thread
       IN  /\ inv[t].pc \in {"returned", "raised"}
           /\ jobs' = [jobs EXCEPT ![j] = BackgroundOutcome(j, inv[t])]
           /\ inv' = [inv EXCEPT ![t] = IdleInvocation]
    /\ background' = [background EXCEPT ![j] = [@ EXCEPT !.pc = "done"]]
    /\ UNCHANGED <<system, agents, use_fast_mode, started, returned, reply,
                   chunkerVars, setupVars>>

\* GET /jobs/{job_id}
GetJobStatus(j) ==
    /\ started
    /\ reply' = IF jobs[j] = None
                THEN [route |-> "get", code |-> 404, job_id |-> j,
                      detail |-> "Job not found"]
                ELSE [route |-> "get", code |-> 200, job_id |-> j,
                      status |-> jobs[j].status]
    /\ UNCHANGED <<use_fast_mode, started, jobs, background, returned,
                   chunkerVars, setupVars, queryVars>>

\* ------------------------------------------------------------------------
\* Specifications
\* ------------------------------------------------------------------------
\* one call of _split_text
InitSplit ==
    /\ SplitCall
    /\ folder = {} /\ SetupIdle /\ QueryIdle /\ ApiIdle

NextSplit ==
    \/ SplitLoop
    \/ SplitReturn

SpecSplit == InitSplit /\ [][NextSplit]_vars

\* the same call, executed to its end: a running loop takes its next step
SpecSplitFair == SpecSplit /\ WF_vars(NextSplit)

\* startups against one persistent collection, initially empty
InitStartup ==
    /\ ChunkerIdle /\ QueryIdle /\ ApiIdle
    /\ folder \in Folders
    /\ SetupIdle

\* processes start at any time
NextStartup ==
    \/ \E p \in Procs : StartProcess(p)
    \/ \E p \in Procs : CheckPopulated(p)
    \/ \E p \in Procs : LoadFolder(p)
    \/ \E p \in Procs : AddToCollection(p)
    \/ \E p \in Procs : ExitProcess(p)
    \/ ChangeFolder

SpecStartup == InitStartup /\ [][NextStartup]_vars

\* processes start one after the other
NextSeq ==
    \/ \E p \in Procs : StartSequential(p)
    \/ \E p \in Procs : CheckPopulated(p)
    \/ \E p \in Procs : LoadFolder(p)
    \/ \E p \in Procs : AddToCollection(p)
    \/ \E p \in Procs : ExitProcess(p)
    \/ ChangeFolder

SpecSeq == InitStartup /\ [][NextSeq]_vars

\* queries against a constructed system
InitQuery ==
    /\ ChunkerIdle /\ ApiIdle
    /\ folder = {}
    /\ store \in QueryStores
    /\ stpc = [p \in Procs |-> "done"]
    /\ observed = [p \in Procs |-> 0]
    /\ batch = [p \in Procs |-> EmptyBatch]
    /\ adders = {}
    /\ submitted = <<>>
    /\ system \in {"CAGSystem", "CAGSystemFast"}
    /\ agents = {}
    /\ inv = [t \in AllThreads |-> IdleInvocation]

NextQuery ==
    \/ \E t \in Threads : CallProcessQuery(t)
    \/ \E t \in Threads : CallRetrieveContext(t)
    \/ \E t \in Threads : RetrieveContext(t)
    \/ \E t \in Threads : RetrieveRaises(t)
    \/ \E t \in Threads : EnsureAgents(t)
    \/ \E t \in Threads : CreateAgent(t)
    \/ \E t \in Threads : BuildTasks(t)
    \/ \E t \in Threads : StartTask(t)
    \/ \E t \in Threads : FinishTask(t)
    \/ \E t \in Threads : FailTask(t)
    \/ \E t \in Threads : ReturnRecord(t)
    \/ \E t \in Threads : FastGenerate(t)
    \/ \E t \in Threads : FastFails(t)
    \/ \E t \in Threads : Finish(t)

SpecQuery == InitQuery /\ [][NextQuery]_vars

\* queries processed at the same time on one CAGSystem by the executor's
\* threads
InitConcurrent ==
    /\ InitQuery
    /\ system = "CAGSystem"
    /\ store = PopulatedStore

NextConcurrent ==
    \/ \E t \in PoolThreads : CallProcessQuery(t)
    \/ \E t \in PoolThreads : RetrieveContext(t)
    \/ \E t \in PoolThreads : RetrieveRaises(t)
    \/ \E t \in PoolThreads : EnsureAgents(t)
    \/ \E t \in PoolThreads : CreateAgent(t)
    \/ \E t \in PoolThreads : BuildTasks(t)
    \/ \E t \in PoolThreads : StartTask(t)
    \/ \E t \in PoolThreads : FinishTask(t)
    \/ \E t \in PoolThreads : FailTask(t)
    \/ \E t \in PoolThreads : ReturnRecord(t)
    \/ \E t \in PoolThreads : Finish(t)

SpecConcurrent == InitConcurrent /\ [][NextConcurrent]_vars

\* the service from its start: the job routes and the executor's threads
InitJobs ==
    /\ ChunkerIdle
    /\ folder = ApiFolder
    /\ SetupIdle
    /\ system = "None"
    /\ agents = {}
    /\ inv = [t \in AllThreads |-> IdleInvocation]
    /\ use_fast_mode \in BOOLEAN
    /\ started = FALSE
    /\ jobs = [j \in JobIds |-> None]
    /\ background = [j \in JobIds |-> IdleTask]
    /\ returned = {}
    /\ reply = None

\* one step of process_query on thread t
InvocationStep(t) ==
    \/ RetrieveContext(t)
    \/ RetrieveRaises(t)
    \/ EnsureAgents(t)
    \/ CreateAgent(t)
    \/ BuildTasks(t)
    \/ StartTask(t)
    \/ FinishTask(t)
    \/ FailTask(t)
    \/ ReturnRecord(t)

NextJobs ==
    \/ StartupEvent
    \/ PostQueryAsync
    \/ \E j \in JobIds : TaskStart(j)
    \/ \E j \in JobIds : TaskComplete(j)
    \/ \E j \in JobIds : GetJobStatus(j)
    \/ \E t \in PoolThreads : RetrieveContext(t)
    \/ \E t \in PoolThreads : RetrieveRaises(t)
    \/ \E t \in PoolThreads : EnsureAgents(t)
    \/ \E t \in PoolThreads : CreateAgent(t)
    \/ \E t \in PoolThreads : BuildTasks(t)
    \/ \E t \in PoolThreads : StartTask(t)
    \/ \E t \in PoolThreads : FinishTask(t)
    \/ \E t \in PoolThreads : FailTask(t)
    \/ \E t \in PoolThreads : ReturnRecord(t)

\* the event loop runs every scheduled background task, the executor hands
\* a queued call to a thread that becomes free, and every call of
\* process_query returns or raises
SpecJobs ==
    /\ InitJobs
    /\ [][NextJobs]_vars
    /\ \A j \in JobIds : SF_vars(TaskStart(j)) /\ WF_vars(TaskComplete(j))
    /\ \A t \in PoolThreads : WF_vars(InvocationStep(t))


\* ------------------------------------------------------------------------
\* Properties
\* ------------------------------------------------------------------------
AugmentationPath(r) == r.call = "process_query" /\ system = "CAGSystem"

\* C1: in the augmentation path the stages run in the order analysis,
\* augmentation, generation: a stage has started only if every earlier stage
\* has finished, no stage runs twice, a returned record means each stage ran
\* exactly once, and the input recorded for the generation stage holds the
\* outputs the analysis and augmentation stages produced.
C1_PipelineOrder ==
    \A t \in Threads :
        LET r == inv[t]
            gen == r.stage[Generation]
        IN  /\ \A n \in Stages :
                  /\ r.runs[n] <= 1
                  /\ r.stage[n].status # "pending" =>
                        \A m \in Stages : m < n => r.stage[m].status = "finished"
            /\ (AugmentationPath(r) /\ r.pc = "returned") =>
                  \A n \in Stages : r.runs[n] = 1 /\ r.stage[n].status = "finished"
            /\ gen.status # "pending" =>
                  /\ r.stage[Analysis].output # None
                  /\ r.stage[Augmentation].output # None
                  /\ \E x \in DOMAIN gen.input.context :
                        gen.input.context[x] = r.stage[Analysis].output
                  /\ \E y \in DOMAIN gen.input.context :
                        gen.input.context[y] = r.stage[Augmentation].output

\* a query answered by the full pipeline from a non-empty context
C1_Witness ==
    \E t \in Threads :
        /\ AugmentationPath(inv[t])
        /\ inv[t].pc = "returned"
        /\ inv[t].initial_context # <<>>
        /\ inv[t].record.augmented_response = inv[t].stage[Generation].output

\* c[overlap:] appended for every chunk after the first
RECURSIVE Reconstruct(_, _)
Reconstruct(cs, ov) ==
    IF cs = <<>> THEN <<>>
    ELSE IF Len(cs) = 1 THEN cs[1]
    ELSE Reconstruct(SubSeq(cs, 1, Len(cs) - 1), ov)
             \o PySlice(cs[Len(cs)], ov, Len(cs[Len(cs)]))

ValidChunking == chunk_size > 0 /\ 0 <= overlap /\ overlap < chunk_size

\* C2: for chunk_size > 0 and 0 <= overlap < chunk_size the returned chunks
\* reconstruct the text once the overlaps are removed, and every chunk but
\* the last has length exactly chunk_size.
C2_ReconstructAndFullChunks ==
    (spc = "returned" /\ ValidChunking) =>
        /\ Reconstruct(chunks, overlap) = text
        /\ \A i \in 1..(Len(chunks) - 1) : Len(chunks[i]) = chunk_size

\* C3: a call with overlap >= chunk_size emits no chunk and does not return
\* normally (it ends in a ChunkingConfigurationError before the loop).
C3_FailsFast ==
    overlap >= chunk_size => (chunks = <<>> /\ spc # "returned")

\* C4: a startup that finds the collection populated inserts nothing, so over
\* sequential startups a populated collection never changes again.
C4_PopulateIdempotent ==
    [][/\ store # {} => store' = store
       /\ \A p \in Procs :
             (stpc[p] = "check" /\ store # {} /\ stpc'[p] # "check") =>
                 (stpc'[p] = "done" /\ adders' = adders /\ submitted' = submitted)
      ]_vars

\* a second startup has returned early although the folder now holds other
\* chunks than the collection
C4_Witness ==
    \E p \in Procs :
        /\ stpc[p] = "done"
        /\ observed[p] > 0
        /\ store # {}
        /\ \E l \in Listings(folder) :
               {LoadDocuments(l).ids[k] : k \in DOMAIN LoadDocuments(l).ids}
                   # StoredIds(store)

\* C5: with concurrent startups on an empty collection at most one process
\* executes collection.add, and no id is submitted for insertion twice.
C5_SingleInsert ==
    /\ Cardinality(adders) <= 1
    /\ \A x \in DOMAIN submitted : submitted[x] <= 1

MissingSource(meta) == meta = None \/ "source" \notin DOMAIN meta

MetadataFailure(r) == r.pc = "raised" /\ r.error.kind \in {"TypeError", "KeyError"}

\* C6: retrieve_context never fails because of missing metadata: an entry
\* whose metadata is absent or has no 'source' comes back with source
\* "Unknown", and the other entries come back too.
C6_UnknownFallback ==
    \A t \in Threads :
        LET r == inv[t]
        IN  r.results # None =>
               /\ ~MetadataFailure(r)
               /\ Len(r.initial_context) = Len(r.results.documents[1])
               /\ \A i \in DOMAIN r.initial_context :
                     MissingSource(r.results.metadatas[1][i]) =>
                         r.initial_context[i].source = "Unknown"

\* C7: once the store has answered, retrieve_context returns (it does not
\* raise) a sequence of length min(k, number of stored entries); on an empty
\* store that is the empty sequence.
C7_RetrieveLength ==
    \A t \in Threads :
        LET r == inv[t]
        IN  r.results # None =>
               /\ ~MetadataFailure(r)
               /\ Len(r.initial_context) = Min(r.k, Cardinality(store))

\* C8: the ids built during one population are pairwise distinct: two
\* triples with the same id are the same chunk of the same file.
C8_IdsDistinct ==
    \A p \in Procs :
        \A x, y \in DOMAIN batch[p].ids :
            batch[p].ids[x] = batch[p].ids[y] =>
                (x = y /\ batch[p].metadatas[x] = batch[p].metadatas[y])

\* a batch built from several files, one of them with several chunks
C8_Witness ==
    \E p \in Procs :
        /\ stpc[p] = "add"
        /\ \E x, y \in DOMAIN batch[p].ids :
              /\ batch[p].metadatas[x].source # batch[p].metadatas[y].source
              /\ batch[p].metadatas[x].chunk_index = batch[p].metadatas[y].chunk_index
        /\ \E x, y \in DOMAIN batch[p].ids :
              /\ batch[p].metadatas[x].source = batch[p].metadatas[y].source
              /\ batch[p].metadatas[x].chunk_index # batch[p].metadatas[y].chunk_index

\* C9: when a stage of the pipeline fails, process_query ends in the error
\* of that stage: no later stage has run and no record is returned.
C9_FailureAborts ==
    \A t \in Threads :
        LET r == inv[t]
        IN  \A n \in Stages :
               r.stage[n].status = "failed" =>
                   /\ r.pc = "raised"
                   /\ r.error = [kind |-> "GenerationError", stage |-> n]
                   /\ r.record = None
                   /\ \A m \in Stages : m > n =>
                         (r.stage[m].status = "pending" /\ r.runs[m] = 0)

\* the augmentation stage failed after the analysis stage had finished
C9_Witness ==
    \E t \in Threads :
        /\ inv[t].stage[Analysis].status = "finished"
        /\ inv[t].stage[Augmentation].status = "failed"
        /\ inv[t].pc = "raised"

\* C10: process_query with the empty query performs no retrieval and no
\* model call and returns no record, on either path.
C10_EmptyQueryRejected ==
    \A t \in Threads :
        LET r == inv[t]
        IN  (r.call = "process_query" /\ r.query = "") =>
               (r.retrievals = 0 /\ r.model_calls = 0 /\ r.record = None)


\* C11: on either path process_query retrieves before any model call and
\* returns a record with the three fields query, initial_context and
\* augmented_response, whose query is the caller's and whose initial_context
\* is what retrieve_context makes of the store's answer: the same on both
\* paths for the same query and the same answer of the store.
C11_SameContract ==
    \A t \in Threads :
        LET r == inv[t]
        IN  /\ r.model_calls > 0 => (r.retrievals = 1 /\ r.results # None)
            /\ (r.call = "process_query" /\ r.pc = "returned") =>
                  /\ DOMAIN r.record = {"query", "initial_context", "augmented_response"}
                  /\ r.record.query = r.query
                  /\ r.record.initial_context = MapResults(r.results).contexts

\* the fast path has answered a query from a non-empty context
C11_Witness ==
    \E t \in Threads :
        /\ system = "CAGSystemFast"
        /\ inv[t].call = "process_query"
        /\ inv[t].pc = "returned"
        /\ inv[t].record.initial_context # <<>>

\* C14: for chunk_size > 0 and 0 <= overlap < chunk_size the loop of
\* _split_text terminates: every iteration moves start forward by exactly
\* chunk_size - overlap (at least 1) from a position inside the text, so
\* there are at most len(text) iterations and the call returns; and every
\* chunk emitted is non-empty.
C14_TerminatesNonEmpty ==
    /\ [](ValidChunking =>
            /\ \A i \in DOMAIN chunks : chunks[i] # <<>>
            /\ start = Len(chunks) * (chunk_size - overlap)
            /\ Len(chunks) <= Len(text)
            /\ (spc = "returned" \/ ENABLED NextSplit))
    /\ [][(ValidChunking /\ chunks' # chunks) =>
            /\ start < Len(text)
            /\ start' = start + (chunk_size - overlap)
            /\ start' > start]_vars
    /\ (ValidChunking ~> spc = "returned")

\* a call with a positive overlap that returned three or more chunks
C14_Witness ==
    /\ ValidChunking
    /\ overlap > 0
    /\ text # <<>>
    /\ spc = "returned"
    /\ Len(chunks) >= 3

\* the invocation has built its tasks from the agents found on self
UsesAgents(r) == r.pc \in {"crew", "task", "return", "returned"} /\ r.stage # <<>>
                    /\ r.call = "process_query"

\* C13: with queries processed concurrently on one CAGSystem no pipeline
\* state is shared: the agents an invocation runs its tasks with are the ones
\* that invocation created, and no invocation's outcome depends on what
\* another invocation has or has not yet written (it never fails on a
\* half-created set of agents).
C13_NoSharedPipelineState ==
    \A t \in PoolThreads :
        LET r == inv[t]
        IN  /\ UsesAgents(r) => r.created = Len(AgentAttrs)
            /\ r.pc = "raised" => r.error.kind # "AttributeError"

\* the job is recorded in jobs
Recorded(j) == jobs[j] # None

\* the job has reached one of its two final states
Settled(j) ==
    /\ Recorded(j)
    /\ \/ jobs[j].status = "completed" /\ jobs[j].result # None /\ jobs[j].error = None
       \/ jobs[j].status = "failed" /\ jobs[j].error # None /\ jobs[j].result = None

\* C12: a job created by POST /query/async is recorded with status
\* "processing" when its id is returned; GET /jobs/{job_id} for a returned id
\* never answers 'Job not found'; a job that is completed or failed never
\* changes again; and, every call of process_query returning or raising,
\* each job eventually is completed (with a result) or failed (with an
\* error).
C12_JobLifecycle ==
    /\ [](/\ \A j \in returned : Recorded(j)
          /\ (reply # None /\ reply.route = "get" /\ reply.job_id \in returned)
                => reply.code # 404)
    /\ [][\A j \in JobIds :
            /\ (j \in returned' /\ j \notin returned) =>
                   jobs'[j] = JobStatus("processing", None, None)
            /\ Settled(j) => jobs'[j] = jobs[j]]_vars
    /\ \A j \in JobIds : (j \in returned) ~> Settled(j)

C12_Witness ==
    /\ \E i, j \in returned :
           /\ Settled(i) /\ jobs[i].status = "completed"
           /\ Settled(j) /\ jobs[j].status = "failed"
    /\ reply # None /\ reply.route = "get" /\ reply.code = 200
    /\ reply.status = "completed"

\* C15: the path that answers queries is chosen by USE_FAST_MODE when the
\* service constructs its system: the fast path (one model call per query)
\* when it is true, the three-stage pipeline when it is false.
C15_ModeSelectsPath ==
    /\ (started /\ system # "None") =>
           system = (IF use_fast_mode THEN "CAGSystemFast" ELSE "CAGSystem")
    /\ \A t \in PoolThreads :
           (use_fast_mode /\ inv[t].pc = "returned") => inv[t].model_calls = 1

====
